---------------------------- MODULE Spec2Model ----------------------------
(***************************************************************************)
(* A model of the stackmap crate (src/src/parser.rs, src/src/lib.rs): the  *)
(* nom-based decoders of an LLVM stack map section and the fallible        *)
(* iterators that walk it.                                                 *)
(*                                                                         *)
(* Byte buffers are sequences of bytes (0..255).  Counts and small fields  *)
(* are decoded to integers; the 64-bit values whose full width matters     *)
(* (addresses, patch point ids, constants) are kept as their eight         *)
(* base-256 digits, least significant digit first, because the model       *)
(* checker's integers are 32 bits wide.                                    *)
(*                                                                         *)
(* Every decoder returns a record with a field t:                          *)
(*   "Ok"    a value val and the remaining input rest                      *)
(*   "Err"   nom's Err::Error / Err::Failure, as .finish() hands it on     *)
(*   "Panic" the call unwinds (slice index out of range, split_off)        *)
(*   "UB"    the build's misaligned read of the constant pool traps        *)
(***************************************************************************)
EXTENDS Integers, Sequences, FiniteSets, TLC

VARIABLES
    host,        \* the build/host the decoder runs on (byte order, alignment)
    section,     \* LLVMStackMaps.section_data
    sm_iter,     \* StackMapsIter
    sm_out,      \* what the last StackMapsIter::next call did
    fn_iter,     \* FunctionsIter of the current stack map, or Nil
    fn_out,      \* what the last FunctionsIter::next call did
    rec_iter,    \* RecordsIter of the current function, or Nil
    rec_out,     \* what the last RecordsIter::next call did
    loc_iter,    \* LocationsIter of the current record, or Nil
    loc_out,     \* what the last LocationsIter::next call did
    lo_iter,     \* LiveOutsIter of the current record, or Nil
    lo_out       \* what the last LiveOutsIter::next call did

vars == <<host, section, sm_iter, sm_out, fn_iter, fn_out, rec_iter, rec_out,
          loc_iter, loc_out, lo_iter, lo_out>>

-----------------------------------------------------------------------------
(* Sizes of the binary layout.                                             *)

STACK_SIZE_RECORD_SIZE == 24
CONSTANT_SIZE == 8
LOCATION_SIZE == 12
LIVE_OUT_SIZE == 4
ALIGNMENT_BYTES == 8
\* The length of the prefix Error::ParserError copies from the failing input.
ERROR_INPUT_LEN == 8
\* The one supported stack map version.
SUPPORTED_VERSION == 3

-----------------------------------------------------------------------------
(* Sequences and little-endian integers.                                   *)

Drop(s, n) == SubSeq(s, n + 1, Len(s))
Take(s, n) == SubSeq(s, 1, n)

RECURSIVE Reverse(_)
Reverse(s) == IF s = <<>> THEN <<>> ELSE Append(Reverse(Tail(s)), Head(s))

\* The unsigned value of little-endian bytes.
RECURSIVE LEU(_)
LEU(bs) == IF bs = <<>> THEN 0 ELSE Head(bs) + 256 * LEU(Tail(bs))

\* The two's complement value of four little-endian bytes.
LEI32(bs) ==
    LEU(Take(bs, 3)) + 16777216 * (IF bs[4] >= 128 THEN bs[4] - 256 ELSE bs[4])

\* I32AsU64 with the field zero-extended, as `x as u32 as u64` would.
I32AsU64_ZeroExtended(bs) == bs \o <<0, 0, 0, 0>>

\* `x as u64` for an i32 given by its four bytes: sign extension to the
\* eight digits of the u64.
I32AsU64(bs) ==
    bs \o (IF bs[4] >= 128 THEN <<255, 255, 255, 255>> ELSE <<0, 0, 0, 0>>)

-----------------------------------------------------------------------------
(* Results and errors.                                                     *)

Nil == [t |-> "Nil"]
Ok(rest, val) == [t |-> "Ok", rest |-> rest, val |-> val]
Failure(e) == [t |-> "Err", err |-> e]
Panic == [t |-> "Panic"]
UB == [t |-> "UB"]

UnsupportedVersion == [kind |-> "UnsupportedVersion"]
MalformedHeader == [kind |-> "MalformedHeader"]
FunctionRecordMismatch == [kind |-> "FunctionRecordMismatch"]
MalformedReserved == [kind |-> "MalformedReserved"]
InvalidConstantIndex(i) == [kind |-> "InvalidConstantIndex", index |-> i]
InvalidLocationKind(k) == [kind |-> "InvalidLocationKind", invalid_kind |-> k]
ParserError(input) == [kind |-> "ParserError", input |-> input, ek |-> "Eof"]

\* ParseError::from_error_kind: input[..8] panics on a shorter input.
from_error_kind(input) ==
    IF Len(input) < ERROR_INPUT_LEN
    THEN Panic
    ELSE Failure(ParserError(Take(input, ERROR_INPUT_LEN)))

-----------------------------------------------------------------------------
(* The nom primitives the decoders are built from.                         *)

\* bytes::complete::take(n)
take(n, input) ==
    IF Len(input) < n THEN from_error_kind(input)
    ELSE Ok(Drop(input, n), Take(input, n))

\* number::complete::le_u8 .. le_u64 and le_i32 read a fixed width; the value
\* is left as its bytes for the caller to decode.
le_u8(input) == take(1, input)
le_u16(input) == take(2, input)
le_u32(input) == take(4, input)
le_u64(input) == take(8, input)
le_i32(input) == take(4, input)

\* sequence::tuple of fixed-width readers, given by their widths: the fields
\* in order, or the failure of the first reader that runs out of input (on
\* the input that reader was given).
RECURSIVE tuple(_, _)
tuple(widths, input) ==
    IF widths = <<>> THEN Ok(input, <<>>)
    ELSE LET r == take(Head(widths), input) IN
         IF r.t # "Ok" THEN r
         ELSE LET more == tuple(Tail(widths), r.rest) IN
              IF more.t # "Ok" THEN more
              ELSE Ok(more.rest, <<r.val>> \o more.val)

-----------------------------------------------------------------------------
(* parser.rs: the decoders.  AndThen is the `?` operator: a result that is *)
(* not Ok leaves the function; an Ok one is bound and the function goes on.*)

AndThen(r, K(_)) == IF r.t # "Ok" THEN r ELSE K(r)

\* parse_header checking the first reserved field only.
parse_header_OneReserved(input) ==
    AndThen(tuple(<<1, 1, 2>>, input), LAMBDA r :
        IF LEU(r.val[2]) # 0
        THEN Failure(MalformedHeader)
        ELSE Ok(r.rest, LEU(r.val[1])))

\* parse_header: the version, after both reserved fields were found zero.
parse_header(input) ==
    AndThen(tuple(<<1, 1, 2>>, input), LAMBDA r :
        IF LEU(r.val[2]) # 0 \/ LEU(r.val[3]) # 0
        THEN Failure(MalformedHeader)
        ELSE Ok(r.rest, LEU(r.val[1])))

\* padding_size without the outer remainder: a whole alignment unit of padding
\* where none is needed.
padding_size_NoOuterMod(parsed_bytes, alignment_bytes) ==
    alignment_bytes - (parsed_bytes % alignment_bytes)

padding_size(parsed_bytes, alignment_bytes) ==
    (alignment_bytes - (parsed_bytes % alignment_bytes)) % alignment_bytes

\* parse_record: one variable-length record; the constants are passed on.
\*   h  patch_point_id, instruction_offset, reserved, num_locations
\*   l  the locations region         p  the padding after it
\*   z  reserved                     n  num_live_outs
\*   o  the live-outs region         q  the padding after it
parse_record(input, constants) ==
    AndThen(tuple(<<8, 4, 2, 2>>, input), LAMBDA h :
    AndThen(take(LEU(h.val[4]) * LOCATION_SIZE, h.rest), LAMBDA l :
    AndThen(take(padding_size(Len(input) - Len(l.rest), ALIGNMENT_BYTES), l.rest),
            LAMBDA p :
    AndThen(le_u16(p.rest), LAMBDA z :
    AndThen(le_u16(z.rest), LAMBDA n :
    AndThen(take(LEU(n.val) * LIVE_OUT_SIZE, n.rest), LAMBDA o :
    AndThen(take(padding_size(Len(input) - Len(o.rest), ALIGNMENT_BYTES), o.rest),
            LAMBDA q :
        Ok(q.rest,
           [patch_point_id |-> h.val[1],
            instruction_offset |-> LEU(h.val[2]),
            num_locations |-> LEU(h.val[4]),
            num_live_outs |-> LEU(n.val),
            locations |-> l.val,
            live_outs |-> o.val,
            constants |-> constants]))))))))

\* slice::from_raw_parts(constants_bytes.as_ptr().cast::<u64>(), num_constants):
\* the bytes are read as u64 in the host's own byte order, which is the
\* little-endian value only on a little-endian host.  The cast needs the
\* bytes to sit at an 8-byte aligned address; where they do not the read is
\* undefined: it works on this host or it traps.
constants_from_raw_parts(constants_bytes, num_constants) ==
    IF ~host.aligned /\ host.misaligned = "traps" THEN UB
    ELSE Ok(<<>>,
            [k \in 1..num_constants |->
                IF host.endian = "little"
                THEN SubSeq(constants_bytes, CONSTANT_SIZE * (k - 1) + 1,
                            CONSTANT_SIZE * k)
                ELSE Reverse(SubSeq(constants_bytes, CONSTANT_SIZE * (k - 1) + 1,
                                    CONSTANT_SIZE * k))])

\* The loop of parse_stack_map keeping, for each record, everything from the
\* record's start to the end of the buffer.
RECURSIVE record_scan_RangeToEnd(_, _, _, _)
record_scan_RangeToEnd(rest, num_records, constants, record_slices) ==
    IF num_records = 0 THEN Ok(rest, record_slices)
    ELSE AndThen(parse_record(rest, constants), LAMBDA r :
             record_scan_RangeToEnd(r.rest, num_records - 1, constants,
                                    Append(record_slices, rest)))

\* The loop of parse_stack_map: parse num_records records one after the
\* other and keep the byte range of each.
RECURSIVE record_scan(_, _, _, _)
record_scan(rest, num_records, constants, record_slices) ==
    IF num_records = 0 THEN Ok(rest, record_slices)
    ELSE AndThen(parse_record(rest, constants), LAMBDA r :
             record_scan(r.rest, num_records - 1, constants,
                         Append(record_slices, Take(rest, Len(rest) - Len(r.rest)))))

\*   h  the header                   c  num_functions, num_constants, num_records
\*   f  the function table           k  the constants' bytes
\*   constants  the constant pool    s  the record slices
parse_stack_map(input) ==
    AndThen(parse_header(input), LAMBDA h :
        IF h.val # SUPPORTED_VERSION THEN Failure(UnsupportedVersion) ELSE
    AndThen(tuple(<<4, 4, 4>>, h.rest), LAMBDA c :
    AndThen(take(LEU(c.val[1]) * STACK_SIZE_RECORD_SIZE, c.rest), LAMBDA f :
    AndThen(take(LEU(c.val[2]) * CONSTANT_SIZE, f.rest), LAMBDA k :
    AndThen(constants_from_raw_parts(k.val, LEU(c.val[2])), LAMBDA constants :
    AndThen(record_scan(k.rest, LEU(c.val[3]), constants.val, <<>>), LAMBDA s :
        Ok(s.rest,
           [version |-> h.val,
            num_functions |-> LEU(c.val[1]),
            functions |-> f.val,
            record_slices |-> s.val,
            constants |-> constants.val])))))))

\* parse_function handing the function its records without taking them off
\* the sequence that goes on to the next function.
parse_function_KeepsGiven(input, records, constants) ==
    AndThen(tuple(<<8, 8, 8>>, input), LAMBDA r :
        IF LEU(r.val[3]) > Len(records) THEN Panic ELSE
        Ok([input |-> r.rest, records |-> records],
           [address |-> r.val[1],
            stack_size |-> r.val[2],
            records |-> Take(records, LEU(r.val[3])),
            constants |-> constants]))

\* parse_function: Vec::split_off(at) panics when at > len.
parse_function(input, records, constants) ==
    AndThen(tuple(<<8, 8, 8>>, input), LAMBDA r :
        IF LEU(r.val[3]) > Len(records) THEN Panic ELSE
        Ok([input |-> r.rest, records |-> Drop(records, LEU(r.val[3]))],
           [address |-> r.val[1],
            stack_size |-> r.val[2],
            records |-> Take(records, LEU(r.val[3])),
            constants |-> constants]))

Register(reg) == [kind |-> "Register", register |-> reg]
Direct(reg, off) == [kind |-> "Direct", register |-> reg, offset |-> off]
Indirect(reg, off) == [kind |-> "Indirect", register |-> reg, offset |-> off]
Constant(v) == [kind |-> "Constant", value |-> v]

\* location_kind with the index bound off by one: the last constant of the
\* pool is refused.
location_kind_BoundOffByOne(loc_kind, dwarf_reg_num, offset_bytes, constants) ==
    CASE loc_kind = 1 -> Ok(<<>>, Register(dwarf_reg_num))
      [] loc_kind = 2 -> Ok(<<>>, Direct(dwarf_reg_num, LEI32(offset_bytes)))
      [] loc_kind = 3 -> Ok(<<>>, Indirect(dwarf_reg_num, LEI32(offset_bytes)))
      [] loc_kind = 4 -> Ok(<<>>, Constant(I32AsU64(offset_bytes)))
      [] loc_kind = 5 ->
           IF LEI32(offset_bytes) < 0 \/ LEI32(offset_bytes) >= Len(constants) - 1
           THEN Failure(InvalidConstantIndex(LEI32(offset_bytes)))
           ELSE Ok(<<>>, Constant(constants[LEI32(offset_bytes) + 1]))
      [] OTHER -> Failure(InvalidLocationKind(loc_kind))

\* location_kind with the tags counted from 0 instead of 1.
location_kind_TagsFromZero(loc_kind, dwarf_reg_num, offset_bytes, constants) ==
    CASE loc_kind = 0 -> Ok(<<>>, Register(dwarf_reg_num))
      [] loc_kind = 1 -> Ok(<<>>, Direct(dwarf_reg_num, LEI32(offset_bytes)))
      [] loc_kind = 2 -> Ok(<<>>, Indirect(dwarf_reg_num, LEI32(offset_bytes)))
      [] loc_kind = 3 -> Ok(<<>>, Constant(I32AsU64(offset_bytes)))
      [] loc_kind = 4 ->
           IF LEI32(offset_bytes) < 0 \/ LEI32(offset_bytes) >= Len(constants)
           THEN Failure(InvalidConstantIndex(LEI32(offset_bytes)))
           ELSE Ok(<<>>, Constant(constants[LEI32(offset_bytes) + 1]))
      [] OTHER -> Failure(InvalidLocationKind(loc_kind))

\* The match of parse_location on the kind tag.
location_kind(loc_kind, dwarf_reg_num, offset_bytes, constants) ==
    CASE loc_kind = 1 -> Ok(<<>>, Register(dwarf_reg_num))
      [] loc_kind = 2 -> Ok(<<>>, Direct(dwarf_reg_num, LEI32(offset_bytes)))
      [] loc_kind = 3 -> Ok(<<>>, Indirect(dwarf_reg_num, LEI32(offset_bytes)))
      [] loc_kind = 4 -> Ok(<<>>, Constant(I32AsU64(offset_bytes)))
      [] loc_kind = 5 ->
           IF LEI32(offset_bytes) < 0 \/ LEI32(offset_bytes) >= Len(constants)
           THEN Failure(InvalidConstantIndex(LEI32(offset_bytes)))
           ELSE Ok(<<>>, Constant(constants[LEI32(offset_bytes) + 1]))
      [] OTHER -> Failure(InvalidLocationKind(loc_kind))

\*   r  loc_kind, zeroed_1, size, dwarf_reg_num, zeroed_2, offset_or_small_const
parse_location(input, constants) ==
    AndThen(tuple(<<1, 1, 2, 2, 2, 4>>, input), LAMBDA r :
        IF LEU(r.val[2]) # 0 \/ LEU(r.val[5]) # 0
        THEN Failure(MalformedReserved)
        ELSE
    AndThen(location_kind(LEU(r.val[1]), LEU(r.val[4]), r.val[6], constants),
            LAMBDA kind :
        Ok(r.rest, [kind |-> kind.val, size |-> LEU(r.val[3])])))

parse_live_out(input) ==
    AndThen(tuple(<<2, 1, 1>>, input), LAMBDA r :
        Ok(r.rest, [dwarf_reg_num |-> LEU(r.val[1]), size |-> LEU(r.val[3])]))

-----------------------------------------------------------------------------
(* lib.rs: the iterators.  Each next is a function of the iterator: what   *)
(* the call hands to the caller (out) and the iterator it leaves (iter).   *)
(* Match(r, ok, err) is the `match ... .finish()` of a next: ok on Ok,     *)
(* err on everything else.                                                 *)

None == [t |-> "None"]
Some(item) == [t |-> "Some", item |-> item]
Match(r, OnOk(_), OnErr(_)) == IF r.t = "Ok" THEN OnOk(r) ELSE OnErr(r)

\* LLVMStackMaps::stack_maps
stack_maps(section_data) == [data |-> section_data]

StackMapsIter_next(it) ==
    IF it.data = <<>> THEN [out |-> None, iter |-> it]
    ELSE Match(parse_stack_map(it.data),
               LAMBDA r : [out |-> Some(r.val), iter |-> [it EXCEPT !.data = r.rest]],
               LAMBDA r : [out |-> r, iter |-> it])

\* StackMap::functions
functions(stack_map) ==
    [data |-> stack_map.functions,
     record_slices |-> stack_map.record_slices,
     remaining_functions |-> stack_map.num_functions,
     constants |-> stack_map.constants]

\* FunctionsIter::next ending on an empty function table without a look at
\* the record slices.
FunctionsIter_next_NoRecordCheck(it) ==
    IF it.data = <<>>
    THEN [out |-> None, iter |-> it]
    ELSE Match(parse_function(it.data, it.record_slices, it.constants),
               LAMBDA r : [out |-> Some(r.val),
                           iter |-> [it EXCEPT
                                       !.data = r.rest.input,
                                       !.record_slices = r.rest.records,
                                       !.remaining_functions = @ - 1]],
               LAMBDA r : [out |-> r,
                           iter |-> [it EXCEPT !.record_slices = <<>>]])

\* mem::take leaves the iterator's record_slices empty whatever parse_function
\* does with the taken vector.
FunctionsIter_next(it) ==
    IF it.data = <<>>
    THEN IF it.record_slices = <<>>
         THEN [out |-> None, iter |-> it]
         ELSE [out |-> Failure(FunctionRecordMismatch), iter |-> it]
    ELSE Match(parse_function(it.data, it.record_slices, it.constants),
               LAMBDA r : [out |-> Some(r.val),
                           iter |-> [it EXCEPT
                                       !.data = r.rest.input,
                                       !.record_slices = r.rest.records,
                                       !.remaining_functions = @ - 1]],
               LAMBDA r : [out |-> r,
                           iter |-> [it EXCEPT !.record_slices = <<>>]])

\* Function::records
records(function) ==
    [records_iter |-> function.records,
     remaining_records |-> Len(function.records),
     constants |-> function.constants]

\* The slice iterator has moved on before the record is parsed; the assert
\* panics when the record does not fill its range.
RecordsIter_next(it) ==
    IF it.records_iter = <<>> THEN [out |-> None, iter |-> it]
    ELSE Match(parse_record(Head(it.records_iter), it.constants),
               LAMBDA r :
                   IF r.rest # <<>>
                   THEN [out |-> Panic,
                         iter |-> [it EXCEPT !.records_iter = Tail(@)]]
                   ELSE [out |-> Some(r.val),
                         iter |-> [it EXCEPT !.records_iter = Tail(@),
                                             !.remaining_records = @ - 1]],
               LAMBDA r : [out |-> r,
                           iter |-> [it EXCEPT !.records_iter = Tail(@)]])

\* Record::locations
locations(record) ==
    [data |-> record.locations,
     constants |-> record.constants,
     remaining_locations |-> record.num_locations]

\* LocationsIter::next without the decrement of remaining_locations.
LocationsIter_next_NoDecrement(it) ==
    IF it.data = <<>> THEN [out |-> None, iter |-> it]
    ELSE Match(parse_location(it.data, it.constants),
               LAMBDA r : [out |-> Some(r.val),
                           iter |-> [it EXCEPT !.data = r.rest]],
               LAMBDA r : [out |-> r, iter |-> it])

LocationsIter_next(it) ==
    IF it.data = <<>> THEN [out |-> None, iter |-> it]
    ELSE Match(parse_location(it.data, it.constants),
               LAMBDA r : [out |-> Some(r.val),
                           iter |-> [it EXCEPT !.data = r.rest,
                                               !.remaining_locations = @ - 1]],
               LAMBDA r : [out |-> r, iter |-> it])

\* Record::live_outs
live_outs(record) ==
    [data |-> record.live_outs,
     remaining_live_outs |-> record.num_live_outs]

LiveOutsIter_next(it) ==
    IF it.data = <<>> THEN [out |-> None, iter |-> it]
    ELSE Match(parse_live_out(it.data),
               LAMBDA r : [out |-> Some(r.val),
                           iter |-> [it EXCEPT !.data = r.rest,
                                               !.remaining_live_outs = @ - 1]],
               LAMBDA r : [out |-> r, iter |-> it])

\* FallibleIterator::size_hint of the four counted iterators (lower bound =
\* upper bound).
FunctionsIter_size_hint(it) == it.remaining_functions
RecordsIter_size_hint(it) == it.remaining_records
LocationsIter_size_hint(it) == it.remaining_locations
LiveOutsIter_size_hint(it) == it.remaining_live_outs

-----------------------------------------------------------------------------
(* The sections the decoder is run on: stack maps laid out as section 6 of *)
(* the format describes, varied in the ways the decoders branch on.        *)

MaxFunctions == 2
MaxRecords == 2
MaxConstants == 2
MaxLocations == 2
MaxLiveOuts == 1
MaxMaps == 2

RECURSIVE U(_, _)
\* n in w little-endian bytes.
U(n, w) == IF w = 0 THEN <<>> ELSE <<n % 256>> \o U(n \div 256, w - 1)

RECURSIVE Flatten(_)
Flatten(ss) == IF ss = <<>> THEN <<>> ELSE Head(ss) \o Flatten(Tail(ss))

Zeros(n) == [i \in 1..n |-> 0]
Pad8(bs) == bs \o Zeros((8 - (Len(bs) % 8)) % 8)
SeqsUpTo(S, n) == UNION {[1..k -> S] : k \in 0..n}

\* tests::empty_stackmap
EmptyStackMap == <<3, 0, 0, 0,  0, 0, 0, 0,  0, 0, 0, 0,  0, 0, 0, 0>>

\* tests::single_function_record_location
SingleFunctionRecordLocation ==
    <<3, 0, 0, 0,  1, 0, 0, 0,  0, 0, 0, 0,  1, 0,
      0, 0,  192, 17, 0, 0, 0, 0, 0, 0,  88, 0, 0, 0,
      0, 0, 0, 0,  1, 0, 0, 0, 0, 0, 0, 0,  42, 0,
      0, 0, 0, 0, 0, 0,  15, 0, 0, 0,  0, 0,  1, 0,
      2, 0,  8, 0,  6, 0,  0, 0,  246, 255, 255, 255,  0, 0,
      0, 0, 0, 0, 0, 0, 0, 0, 0, 0>>

EncLocation(tag, zeroed_1, size, reg, zeroed_2, offset) ==
    <<tag, zeroed_1>> \o U(size, 2) \o U(reg, 2) \o U(zeroed_2, 2) \o offset
EncLiveOut(reg, size) == U(reg, 2) \o <<0, size>>
EncRecord(id, locs, nlo) ==
    LET head == Pad8(U(id, 8) \o U(15, 4) \o <<0, 0>> \o U(Len(locs), 2)
                     \o Flatten(locs))
    IN Pad8(head \o <<0, 0>> \o U(nlo, 2)
            \o Flatten([i \in 1..nlo |-> EncLiveOut(i, 8)]))
EncFunction(i, record_count) == U(4544 + i, 8) \o U(88, 8) \o U(record_count, 8)
EncHeader(version, zeroed_1, zeroed_2) == <<version, zeroed_1>> \o U(zeroed_2, 2)
EncStackMap(header, counts, consts, recs) ==
    header \o U(Len(counts), 4) \o U(Len(consts), 4) \o U(Len(recs), 4)
    \o Flatten([i \in 1..Len(counts) |-> EncFunction(i, counts[i])])
    \o Flatten(consts) \o Flatten(recs)

GoodHeader == EncHeader(3, 0, 0)
\* The k-th constant of a pool: its eight bytes all differ.
PoolConstant(k) == <<k, 17, 34, 51, 68, 85, 102, 128 + k>>
Pool(n) == [k \in 1..n |-> PoolConstant(k)]
RegisterLoc == EncLocation(1, 0, 8, 7, 0, U(0, 4))
PlainRecord(id) == EncRecord(id, <<>>, 0)

\* Headers of every kind, cut at every length.
HeaderSections ==
    {Take(EncHeader(v, z1, z2) \o Zeros(12), n) :
        v \in {2, 3, 4}, z1 \in {0, 1}, z2 \in {0, 1, 256}, n \in 0..16}

\* Function tables whose declared record counts do and do not add up to the
\* records of the stack map.
PartitionSections ==
    {EncStackMap(GoodHeader, counts, <<>>, [i \in 1..nr |-> PlainRecord(i)]) :
        counts \in SeqsUpTo(0..(MaxRecords + 1), MaxFunctions),
        nr \in 0..MaxRecords}

\* One record whose locations hold one entry of every kind, against pools of
\* every size.
Offsets ==
    {U(i, 4) : i \in 0..(MaxConstants + 1)}
    \cup {<<255, 255, 255, 255>>, <<246, 255, 255, 255>>, <<0, 0, 0, 128>>}
LocationEntries ==
    {EncLocation(tag, z[1], 8, 6, z[2], off) :
        tag \in {0, 1, 2, 3, 4, 5, 6, 255},
        z \in {<<0, 0>>, <<1, 0>>, <<0, 1>>},
        off \in Offsets}
LocationLists ==
    UNION {{[i \in 1..n |-> IF i = p THEN e ELSE RegisterLoc] :
              p \in 1..n, e \in LocationEntries} : n \in 1..MaxLocations}
LocationSections ==
    {EncStackMap(GoodHeader, <<1>>, Pool(nc), <<EncRecord(42, locs, 0)>>) :
        nc \in 0..MaxConstants, locs \in LocationLists}

\* Records of every shape: the number of locations and of live-outs decides
\* the padding.
RecordShapes ==
    {EncRecord(42, [i \in 1..nl |-> RegisterLoc], nlo) :
        nl \in 0..MaxLocations, nlo \in 0..MaxLiveOuts}
RecordSections ==
    {EncStackMap(GoodHeader, <<Len(recs)>>, Pool(1), recs) :
        recs \in SeqsUpTo(RecordShapes, MaxRecords)}

\* Sections of several stack maps, whole and cut short at every byte.
RichStackMap ==
    EncStackMap(GoodHeader, <<1>>, Pool(1),
                <<EncRecord(42, <<EncLocation(5, 0, 8, 0, 0, U(0, 4))>>, 1)>>)
BaseMaps == {EmptyStackMap, SingleFunctionRecordLocation, RichStackMap}
WholeSections == {Flatten(ms) : ms \in SeqsUpTo(BaseMaps, MaxMaps)}
TruncatedSections == UNION {{Take(s, n) : n \in 0..Len(s)} : s \in WholeSections}

Sections ==
    HeaderSections \cup PartitionSections \cup LocationSections
    \cup RecordSections \cup TruncatedSections

\* The hosts: the byte order, whether the section sits at an 8-byte aligned
\* address, and what a misaligned u64 read does there.
Hosts ==
    {[endian |-> e, aligned |-> TRUE, misaligned |-> "none"] :
        e \in {"little", "big"}}
    \cup {[endian |-> e, aligned |-> FALSE, misaligned |-> m] :
            e \in {"little", "big"}, m \in {"works", "traps"}}

-----------------------------------------------------------------------------
(* The traversal: a caller that walks the section depth first.  It keeps   *)
(* one iterator per level and drops the iterators below a level when it    *)
(* advances or recreates that level's iterator.                            *)

Init ==
    /\ host \in Hosts
    /\ section \in Sections
    /\ sm_iter = stack_maps(section)
    /\ sm_out = Nil
    /\ fn_iter = Nil /\ fn_out = Nil
    /\ rec_iter = Nil /\ rec_out = Nil
    /\ loc_iter = Nil /\ loc_out = Nil
    /\ lo_iter = Nil /\ lo_out = Nil

\* A next call returns: the iterator and what the caller got.
Returns(r, iter, out) == iter = r.iter /\ out = r.out

DropFunctions == fn_iter' = Nil /\ fn_out' = Nil
DropRecords == rec_iter' = Nil /\ rec_out' = Nil
DropLocations == loc_iter' = Nil /\ loc_out' = Nil
DropLiveOuts == lo_iter' = Nil /\ lo_out' = Nil

StackMapsNext ==
    /\ Returns(StackMapsIter_next(sm_iter), sm_iter', sm_out')
    /\ DropFunctions /\ DropRecords /\ DropLocations /\ DropLiveOuts
    /\ UNCHANGED <<host, section>>

Functions ==
    /\ sm_out.t = "Some"
    /\ fn_iter' = functions(sm_out.item)
    /\ fn_out' = Nil
    /\ DropRecords /\ DropLocations /\ DropLiveOuts
    /\ UNCHANGED <<host, section, sm_iter, sm_out>>

FunctionsNext ==
    /\ fn_iter # Nil
    /\ Returns(FunctionsIter_next(fn_iter), fn_iter', fn_out')
    /\ DropRecords /\ DropLocations /\ DropLiveOuts
    /\ UNCHANGED <<host, section, sm_iter, sm_out>>

Records ==
    /\ fn_out.t = "Some"
    /\ rec_iter' = records(fn_out.item)
    /\ rec_out' = Nil
    /\ DropLocations /\ DropLiveOuts
    /\ UNCHANGED <<host, section, sm_iter, sm_out, fn_iter, fn_out>>

RecordsNext ==
    /\ rec_iter # Nil
    /\ Returns(RecordsIter_next(rec_iter), rec_iter', rec_out')
    /\ DropLocations /\ DropLiveOuts
    /\ UNCHANGED <<host, section, sm_iter, sm_out, fn_iter, fn_out>>

Locations ==
    /\ rec_out.t = "Some"
    /\ loc_iter' = locations(rec_out.item)
    /\ loc_out' = Nil
    /\ UNCHANGED <<host, section, sm_iter, sm_out, fn_iter, fn_out,
                   rec_iter, rec_out, lo_iter, lo_out>>

LocationsNext ==
    /\ loc_iter # Nil
    /\ Returns(LocationsIter_next(loc_iter), loc_iter', loc_out')
    /\ UNCHANGED <<host, section, sm_iter, sm_out, fn_iter, fn_out,
                   rec_iter, rec_out, lo_iter, lo_out>>

LiveOuts ==
    /\ rec_out.t = "Some"
    /\ lo_iter' = live_outs(rec_out.item)
    /\ lo_out' = Nil
    /\ UNCHANGED <<host, section, sm_iter, sm_out, fn_iter, fn_out,
                   rec_iter, rec_out, loc_iter, loc_out>>

LiveOutsNext ==
    /\ lo_iter # Nil
    /\ Returns(LiveOutsIter_next(lo_iter), lo_iter', lo_out')
    /\ UNCHANGED <<host, section, sm_iter, sm_out, fn_iter, fn_out,
                   rec_iter, rec_out, loc_iter, loc_out>>

Next ==
    \/ StackMapsNext
    \/ Functions
    \/ FunctionsNext
    \/ Records
    \/ RecordsNext
    \/ Locations
    \/ LocationsNext
    \/ LiveOuts
    \/ LiveOutsNext

Spec == Init /\ [][Next]_vars

-----------------------------------------------------------------------------
(* Properties of FunctionsIter.                                            *)

\* A next call has been made and did not yield an item: the iterator's data
\* is still the data the call was made on.
Refused(out) == out.t \notin {"Nil", "Some"}

\* C1: a FunctionsIter::next call on a function entry that declares more
\* records than remain (the only way a call on a nonempty function table does
\* not yield the function) returns the error FunctionRecordMismatch to the
\* caller: it does not unwind.
C1_OvershootReturnsMismatch ==
    (Refused(fn_out) /\ fn_iter.data # <<>>)
    => fn_out = Failure(FunctionRecordMismatch)

C2_Next(it, r) ==
    /\ r.out = None => it.data = <<>> /\ it.record_slices = <<>>
    /\ (it.data = <<>> /\ it.record_slices # <<>>)
       => r.out = Failure(FunctionRecordMismatch) /\ r.iter = it

\* C2: FunctionsIter::next returns end-of-sequence only when the function
\* table bytes and the remaining record slices are both empty; with the bytes
\* empty and a record slice left it returns FunctionRecordMismatch and leaves
\* the iterator as it was, so every later call returns the same.
C2_EndOnlyWhenRecordsExhausted ==
    /\ fn_iter # Nil => C2_Next(fn_iter, FunctionsIter_next(fn_iter))
    /\ fn_out = None => fn_iter.data = <<>> /\ fn_iter.record_slices = <<>>
    /\ (Refused(fn_out) /\ fn_iter.data = <<>> /\ fn_iter.record_slices # <<>>)
       => fn_out = Failure(FunctionRecordMismatch)

\* A FunctionsIter::next call has returned FunctionRecordMismatch for records
\* that no function of a nonempty function table claimed.
C2_Witness ==
    /\ fn_out = Failure(FunctionRecordMismatch)
    /\ fn_iter.data = <<>>
    /\ fn_iter.record_slices # <<>>
    /\ sm_out.item.num_functions > 0

-----------------------------------------------------------------------------
(* Properties of StackMapsIter and parse_stack_map.                        *)

\* d is a stack map cut short: a nonempty proper prefix of a whole one.
IsTruncatedStackMap(d) ==
    \E m \in BaseMaps : Len(d) \in 1..(Len(m) - 1) /\ d = Take(m, Len(d))

\* C3: on a buffer that holds a stack map cut short at any byte,
\* StackMapsIter::next returns an error value: it yields no stack map, and a
\* call that yields none returns an error, not end-of-sequence and not by
\* unwinding.
C3_TruncatedReturnsError ==
    IsTruncatedStackMap(sm_iter.data)
    => /\ StackMapsIter_next(sm_iter).out.t # "Some"
       /\ Refused(sm_out) => sm_out.t = "Err"

\* The reserved fields of the header at the start of d, which holds them.
HeaderReservedZero(d) == d[2] = 0 /\ d[3] = 0 /\ d[4] = 0

\* C4 as claimed: a StackMapsIter::next call on a buffer whose first byte is
\* not 3 fails with UnsupportedVersion, whatever follows that byte.
C4_VersionByteAlone ==
    (/\ Refused(sm_out)
     /\ sm_iter.data # <<>>
     /\ sm_iter.data[1] # SUPPORTED_VERSION)
    => sm_out = Failure(UnsupportedVersion)

C4_Header(d, r) ==
    /\ (HeaderReservedZero(d) /\ d[1] # SUPPORTED_VERSION)
       => r = Failure(UnsupportedVersion)
    /\ ~HeaderReservedZero(d) => r = Failure(MalformedHeader)

\* C4 as amended: with the four header bytes present, a version byte other
\* than 3 gives UnsupportedVersion when both reserved fields are zero,
\* whatever the later bytes; a nonzero reserved field gives MalformedHeader
\* whatever the version byte.
C4_UnsupportedVersionAfterReserved ==
    (Refused(sm_out) /\ Len(sm_iter.data) >= 4)
    => C4_Header(sm_iter.data, sm_out)

\* StackMapsIter::next has returned UnsupportedVersion for a buffer with
\* bytes after the header.
C4_Witness ==
    /\ sm_out = Failure(UnsupportedVersion)
    /\ sm_iter.data[1] # SUPPORTED_VERSION
    /\ Len(sm_iter.data) > 4

RECURSIVE TotalLen(_)
TotalLen(ss) == IF ss = <<>> THEN 0 ELSE Len(Head(ss)) + TotalLen(Tail(ss))

\* The bytes of the constants region of the stack map that the last
\* StackMapsIter::next call yielded: they end where its records begin.
YieldedConstantsRegion ==
    SubSeq(section,
           Len(section) - Len(sm_iter.data) - TotalLen(sm_out.item.record_slices)
               - CONSTANT_SIZE * Len(sm_out.item.constants) + 1,
           Len(section) - Len(sm_iter.data) - TotalLen(sm_out.item.record_slices))

\* C9: entry k of a decoded stack map's constant pool is the little-endian
\* u64 of the 8 bytes at offset 8k of the constants region (its digits, least
\* significant first, are those bytes), on every host.
C9_PoolIsLittleEndian ==
    sm_out.t = "Some" =>
        \A k \in 1..Len(sm_out.item.constants) :
            sm_out.item.constants[k]
                = SubSeq(YieldedConstantsRegion, CONSTANT_SIZE * (k - 1) + 1,
                         CONSTANT_SIZE * k)

C10_Next(it, r) ==
    /\ r.out.t = "Some" => Len(r.iter.data) + 16 <= Len(it.data)
    /\ r.out = None => it.data = <<>>

\* C10: every StackMapsIter::next call returns end-of-sequence, a stack map
\* or an error; a call that yields a stack map shrinks the remaining buffer
\* by at least 16 bytes; end-of-sequence is returned exactly on the empty
\* buffer.
C10_NextReturnsAndShrinks ==
    /\ C10_Next(sm_iter, StackMapsIter_next(sm_iter))
    /\ sm_out.t \in {"Nil", "None", "Some", "Err"}
    /\ (Refused(sm_out) /\ sm_iter.data = <<>>) => sm_out = None

-----------------------------------------------------------------------------
(* Properties of parse_location.                                           *)

\* The fields of a location entry.
EntryTag(e) == e[1]
EntryReservedZero(e) == e[2] = 0 /\ e[7] = 0 /\ e[8] = 0
EntryOffsetBytes(e) == SubSeq(e, 9, 12)

\* A LocationsIter::next call has been made on an entry.
Decoded == loc_out.t = "Some" \/ (Refused(loc_out) /\ loc_iter.data # <<>>)

\* The entry the last LocationsIter::next call was made on: the one before
\* the iterator's data when the call yielded a location, the one at the start
\* of its data when it did not.
DecodedEntry ==
    IF loc_out.t = "Some"
    THEN SubSeq(rec_out.item.locations,
                Len(rec_out.item.locations) - Len(loc_iter.data) - LOCATION_SIZE + 1,
                Len(rec_out.item.locations) - Len(loc_iter.data))
    ELSE Take(loc_iter.data, LOCATION_SIZE)

C5_Entry(e, constants, r) ==
    (EntryTag(e) = 5 /\ EntryReservedZero(e)) =>
        IF 0 <= LEI32(EntryOffsetBytes(e)) /\ LEI32(EntryOffsetBytes(e)) < Len(constants)
        THEN r.t = "Some"
             /\ r.item.kind = Constant(constants[LEI32(EntryOffsetBytes(e)) + 1])
        ELSE r = Failure(InvalidConstantIndex(LEI32(EntryOffsetBytes(e))))

\* C5: a well-formed location entry with tag 5 and index field i, decoded
\* against a pool of n constants, is Constant(pool[i]) when 0 <= i < n and
\* fails with InvalidConstantIndex carrying i otherwise (i negative, i >= n,
\* n = 0).
C5_ConstantIndexResolved ==
    Decoded => C5_Entry(DecodedEntry, loc_iter.constants, loc_out)

\* A tag 5 entry has been resolved to the second constant of a pool.
C5_Witness ==
    /\ loc_out.t = "Some"
    /\ EntryTag(DecodedEntry) = 5
    /\ Len(loc_iter.constants) >= 2
    /\ LEI32(EntryOffsetBytes(DecodedEntry)) = 1
    /\ loc_out.item.kind = Constant(loc_iter.constants[2])

C6_Unsigned32(e, r) ==
    (EntryTag(e) = 4 /\ EntryReservedZero(e)) =>
        /\ r.t = "Some"
        /\ r.item.kind = Constant(EntryOffsetBytes(e) \o <<0, 0, 0, 0>>)

\* C6 as claimed: a tag 4 entry decodes to Constant(v) with v the 32-bit
\* field taken as unsigned: the four field bytes are v's low digits and its
\* high four digits are zero, so v < 2^32.
C6_SmallConstantBelow2To32 ==
    Decoded => C6_Unsigned32(DecodedEntry, loc_out)

C6_SignExtended(e, r) ==
    (EntryTag(e) = 4 /\ EntryReservedZero(e)) =>
        /\ r.t = "Some"
        /\ r.item.kind.kind = "Constant"
        /\ SubSeq(r.item.kind.value, 1, 4) = EntryOffsetBytes(e)
        /\ SubSeq(r.item.kind.value, 5, 8)
             = IF e[12] >= 128 THEN <<255, 255, 255, 255>> ELSE <<0, 0, 0, 0>>

\* C6 as amended: a tag 4 entry decodes to Constant(v) with v the signed
\* 32-bit field sign-extended to 64 bits and then taken as unsigned: v is
\* the field itself (below 2^31) when its sign bit is clear, and 2^64 minus
\* the field's magnitude when it is set (FF FF FF FF gives 2^64 - 1).
C6_SmallConstantSignExtended ==
    Decoded => C6_SignExtended(DecodedEntry, loc_out)

\* A tag 4 entry with field bytes FF FF FF FF has been decoded.
C6_Witness ==
    /\ loc_out.t = "Some"
    /\ EntryTag(DecodedEntry) = 4
    /\ EntryOffsetBytes(DecodedEntry) = <<255, 255, 255, 255>>
    /\ loc_out.item.kind = Constant(<<255, 255, 255, 255, 255, 255, 255, 255>>)

AddressedKinds == {"Register", "Direct", "Indirect"}
TagOfKind(k) == CASE k = "Register" -> 1 [] k = "Direct" -> 2 [] k = "Indirect" -> 3

C7_AnyBytes(e, r) ==
    /\ (EntryTag(e) = 0 \/ EntryTag(e) >= 6)
       => r = Failure(InvalidLocationKind(EntryTag(e)))
    /\ (r.t = "Some" /\ r.item.kind.kind \in AddressedKinds)
       => EntryTag(e) = TagOfKind(r.item.kind.kind)

\* C7 as claimed: an entry whose tag is 0 or at least 6 fails with
\* InvalidLocationKind carrying the tag whatever its other bytes are, and
\* only tags 1, 2, 3 yield Register, Direct, Indirect.
C7_InvalidKindWhateverTheRest ==
    Decoded => C7_AnyBytes(DecodedEntry, loc_out)

C7_ReservedFirst(e, r) ==
    /\ ~EntryReservedZero(e) => r = Failure(MalformedReserved)
    /\ (EntryReservedZero(e) /\ (EntryTag(e) = 0 \/ EntryTag(e) >= 6))
       => r = Failure(InvalidLocationKind(EntryTag(e)))
    /\ (EntryReservedZero(e) /\ EntryTag(e) \in {1, 2, 3})
       => r.t = "Some" /\ r.item.kind.kind \in AddressedKinds
    /\ (r.t = "Some" /\ r.item.kind.kind \in AddressedKinds)
       => EntryTag(e) = TagOfKind(r.item.kind.kind)

\* C7 as amended: an entry whose two reserved fields are zero and whose tag
\* is 0 or at least 6 fails with InvalidLocationKind carrying the tag,
\* whatever its size, register and offset bytes are; an entry with a nonzero
\* reserved field fails with MalformedReserved whatever its tag; tags 1, 2, 3
\* are the only ones that yield Register, Direct, Indirect.
C7_InvalidKindAfterReserved ==
    Decoded => C7_ReservedFirst(DecodedEntry, loc_out)

\* LocationsIter::next has failed with InvalidLocationKind on the tag 255 of
\* an entry that follows a decoded one.
C7_Witness ==
    /\ loc_out = Failure(InvalidLocationKind(255))
    /\ EntryTag(DecodedEntry) = 255
    /\ loc_iter.remaining_locations < rec_out.item.num_locations

-----------------------------------------------------------------------------
(* Properties of the size hints.                                           *)

CountedIterators == {"functions", "records", "locations", "live_outs"}

IterOf(kind) ==
    CASE kind = "functions" -> fn_iter
      [] kind = "records" -> rec_iter
      [] kind = "locations" -> loc_iter
      [] kind = "live_outs" -> lo_iter

OutOf(kind) ==
    CASE kind = "functions" -> fn_out
      [] kind = "records" -> rec_out
      [] kind = "locations" -> loc_out
      [] kind = "live_outs" -> lo_out

NextOf(kind, it) ==
    CASE kind = "functions" -> FunctionsIter_next(it)
      [] kind = "records" -> RecordsIter_next(it)
      [] kind = "locations" -> LocationsIter_next(it)
      [] kind = "live_outs" -> LiveOutsIter_next(it)

HintOf(kind, it) ==
    CASE kind = "functions" -> FunctionsIter_size_hint(it)
      [] kind = "records" -> RecordsIter_size_hint(it)
      [] kind = "locations" -> LocationsIter_size_hint(it)
      [] kind = "live_outs" -> LiveOutsIter_size_hint(it)

\* The count the item an iterator was made from declares.
DeclaredOf(kind) ==
    CASE kind = "functions" -> sm_out.item.num_functions
      [] kind = "records" -> Len(fn_out.item.records)
      [] kind = "locations" -> rec_out.item.num_locations
      [] kind = "live_outs" -> rec_out.item.num_live_outs

\* The number of items repeated next calls yield from it before the first
\* call that yields none.
RECURSIVE Upcoming(_, _)
UpcomingAfter(kind, r) ==
    IF r.out.t = "Some" THEN 1 + Upcoming(kind, r.iter) ELSE 0
Upcoming(kind, it) == UpcomingAfter(kind, NextOf(kind, it))

\* What the first call that yields none does: "None", "Err" or "Panic".
RECURSIVE Ending(_, _)
EndingAfter(kind, r) ==
    IF r.out.t = "Some" THEN Ending(kind, r.iter) ELSE r.out.t
Ending(kind, it) == EndingAfter(kind, NextOf(kind, it))

C8_Exact(kind, it, r) ==
    /\ HintOf(kind, it) >= 0
    /\ HintOf(kind, it) = Upcoming(kind, it)
    /\ HintOf(kind, it) = 0 <=> r.out = None

\* C8 as claimed: in every state of each counted iterator the size hint is
\* the number of items the iterator will still yield; it never goes below 0
\* and is 0 exactly when next returns end-of-sequence.
C8_HintIsRemaining ==
    \A kind \in CountedIterators :
        IterOf(kind) # Nil
        => C8_Exact(kind, IterOf(kind), NextOf(kind, IterOf(kind)))

C8_Bound(kind, it, r) ==
    /\ HintOf(kind, it) >= 0
    /\ HintOf(kind, it) >= Upcoming(kind, it)
    /\ Ending(kind, it) = "None" => HintOf(kind, it) = Upcoming(kind, it)
    /\ r.out = None => HintOf(kind, it) = 0
    /\ HintOf(kind, r.iter)
         = IF r.out.t = "Some" THEN HintOf(kind, it) - 1 ELSE HintOf(kind, it)
    /\ OutOf(kind) = Nil => HintOf(kind, it) = DeclaredOf(kind)

\* C8 as amended: the size hint of each counted iterator starts at the
\* declared count, goes down by exactly 1 on each yielded item and on nothing
\* else, never goes below 0, and is 0 whenever next returns end-of-sequence;
\* it is the number of items still to come when the traversal ends with
\* end-of-sequence, and only an upper bound of it when the traversal ends
\* with a failure (an invalid location entry, FunctionRecordMismatch, the
\* unwinding of an overshooting record count).
C8_HintBoundsRemaining ==
    \A kind \in CountedIterators :
        IterOf(kind) # Nil
        => C8_Bound(kind, IterOf(kind), NextOf(kind, IterOf(kind)))

\* A LocationsIter over two entries has yielded the first and failed on the
\* second, its hint still 1.
C8_Witness ==
    /\ loc_out.t = "Err"
    /\ LocationsIter_size_hint(loc_iter) = 1
    /\ rec_out.item.num_locations = 2
    /\ Upcoming("locations", loc_iter) = 0

-----------------------------------------------------------------------------
(* Properties of parse_record and of the record ranges.                    *)

\* The input the pre-scan of parse_stack_map ran parse_record on for the i-th
\* record of the stack map that the last StackMapsIter::next call yielded:
\* that record's range, the ranges after it and what follows the stack map.
PreScanInput(i) ==
    Flatten(SubSeq(sm_out.item.record_slices, i,
                   Len(sm_out.item.record_slices)))
    \o sm_iter.data

\* The layout of a record with n locations and m live-outs, from the record's
\* own start:  c1 bytes up to the end of the locations region, p1 of padding,
\* c2 bytes up to the end of the live-outs region, p2 of padding.
C11_Regions(input, r, n, m, c1, p1, c2, p2) ==
    /\ n = LEU(SubSeq(input, 15, 16))
    /\ Len(r.val.locations) = 12 * n
    /\ r.val.locations = SubSeq(input, 17, c1)
    /\ m = LEU(SubSeq(input, c1 + p1 + 3, c1 + p1 + 4))
    /\ Len(r.val.live_outs) = 4 * m
    /\ r.val.live_outs = SubSeq(input, c1 + p1 + 5, c2)
    /\ Len(input) - Len(r.rest) = c2 + p2
    /\ r.rest = Drop(input, c2 + p2)
    /\ (Len(input) - Len(r.rest)) % 8 = 0

C11_Padded(input, r, n, m, c1, p1) ==
    C11_Regions(input, r, n, m, c1, p1, c1 + p1 + 4 + 4 * m,
                (8 - ((c1 + p1 + 4 + 4 * m) % 8)) % 8)

C11_Layout(input, r) ==
    r.t = "Ok" =>
        C11_Padded(input, r, r.val.num_locations, r.val.num_live_outs,
                   16 + 12 * r.val.num_locations,
                   (8 - ((16 + 12 * r.val.num_locations) % 8)) % 8)

\* C11: whenever parse_record succeeds on a record with num_locations = n and
\* num_live_outs = m, the locations region is exactly 12n bytes, the
\* live-outs region is exactly 4m bytes, the padding skipped after each
\* region is (8 - (c mod 8)) mod 8 for the c bytes consumed from the record's
\* own start, and the record consumes a multiple of 8 bytes.  Checked on the
\* inputs of the pre-scan (the record followed by the rest of the section)
\* and on the range RecordsIter::next decodes next.
C11_RecordLayout ==
    /\ sm_out.t = "Some" =>
          \A i \in 1..Len(sm_out.item.record_slices) :
              C11_Layout(PreScanInput(i),
                         parse_record(PreScanInput(i), sm_out.item.constants))
    /\ (rec_iter # Nil /\ rec_iter.records_iter # <<>>) =>
          C11_Layout(Head(rec_iter.records_iter),
                     parse_record(Head(rec_iter.records_iter),
                                  rec_iter.constants))
    /\ rec_out.t = "Some" =>
          /\ Len(rec_out.item.locations) = 12 * rec_out.item.num_locations
          /\ Len(rec_out.item.live_outs) = 4 * rec_out.item.num_live_outs

\* RecordsIter::next has yielded the first of two records, one with a single
\* location (4 bytes of padding after the locations region) and no live-out
\* (4 bytes of padding after the live-outs region); the pre-scan decoded it
\* with the second record behind it.
C11_Witness ==
    /\ rec_out.t = "Some"
    /\ rec_out.item.num_locations = 1
    /\ rec_out.item.num_live_outs = 0
    /\ Len(sm_out.item.record_slices) = 2
    /\ rec_iter.records_iter # <<>>
    /\ parse_record(PreScanInput(1), sm_out.item.constants).t = "Ok"
    /\ Len(PreScanInput(1)) > Len(sm_out.item.record_slices[1])

\* parse_record succeeds on the range and leaves nothing of it.
C12_ConsumedExactly(r) == r.t = "Ok" /\ r.rest = <<>>

C12_AllExact(ranges, constants) ==
    \A i \in 1..Len(ranges) :
        C12_ConsumedExactly(parse_record(ranges[i], constants))

\* C12: every record range the pre-scan of parse_stack_map retained decodes
\* again, in RecordsIter::next, with success and with no byte of the range
\* left over: the assertion on the rest never fails and RecordsIter::next
\* returns a record or end-of-sequence, never an error, in every traversal
\* of a stack map that decoded.
C12_RangesDecodeExactly ==
    /\ sm_out.t = "Some" =>
          C12_AllExact(sm_out.item.record_slices, sm_out.item.constants)
    /\ fn_out.t = "Some" =>
          C12_AllExact(fn_out.item.records, fn_out.item.constants)
    /\ rec_iter # Nil =>
          /\ C12_AllExact(rec_iter.records_iter, rec_iter.constants)
          /\ RecordsIter_next(rec_iter).out.t \in {"None", "Some"}
    /\ rec_out.t \in {"Nil", "None", "Some"}

\* RecordsIter::next has decoded both ranges of a function with two records,
\* the second one holding a location and a live-out.
C12_Witness ==
    /\ rec_out.t = "Some"
    /\ rec_iter.records_iter = <<>>
    /\ Len(fn_out.item.records) = 2
    /\ rec_out.item.num_locations > 0
    /\ rec_out.item.num_live_outs > 0

-----------------------------------------------------------------------------
(* Properties of the grouping of the record ranges into functions.         *)

\* The record_count field of the j-th entry of a function table.
DeclaredCount(table, j) ==
    LEU(SubSeq(table, STACK_SIZE_RECORD_SIZE * (j - 1) + 17,
               STACK_SIZE_RECORD_SIZE * j))

\* The record counts of the first j entries of a function table, added up.
RECURSIVE DeclaredUpTo(_, _)
DeclaredUpTo(table, j) ==
    IF j = 0 THEN 0 ELSE DeclaredUpTo(table, j - 1) + DeclaredCount(table, j)

\* The bytes of the section that the stack map sm was decoded from, for the
\* stack map that the last StackMapsIter::next call yielded.
YieldedStackMapBytes(sm) ==
    SubSeq(section,
           Len(section) - Len(sm_iter.data) - TotalLen(sm.record_slices)
               - CONSTANT_SIZE * Len(sm.constants) - Len(sm.functions) - 16 + 1,
           Len(section) - Len(sm_iter.data))

\* With j functions yielded, which declare k records between them: the
\* iterator is left with the function table after its j-th entry and with
\* the pre-scanned ranges after the k-th; the function just yielded, the
\* j-th, holds the record_count ranges that end with the k-th.
C13_Runs(sm, it, out, j, k) ==
    /\ j \in 0..sm.num_functions
    /\ it.data = Drop(sm.functions, STACK_SIZE_RECORD_SIZE * j)
    /\ k <= Len(sm.record_slices)
    /\ it.record_slices = Drop(sm.record_slices, k)
    /\ Take(sm.record_slices, k) \o it.record_slices = sm.record_slices
    /\ out.t = "Some" =>
          /\ j >= 1
          /\ Len(out.item.records) = DeclaredCount(sm.functions, j)
          /\ out.item.records
               = SubSeq(sm.record_slices,
                        k - DeclaredCount(sm.functions, j) + 1, k)
    /\ out = None => k = Len(sm.record_slices)
    /\ out = Nil => j = 0 /\ it = functions(sm)

C13_Yielded(sm, it, out, j) ==
    C13_Runs(sm, it, out, j, DeclaredUpTo(sm.functions, j))

\* C13: in every state of a FunctionsIter traversal that has not failed, the
\* functions yielded so far hold, in yield order, the consecutive runs of the
\* stack map's pre-scanned record ranges that their record counts measure
\* out (the j-th function the record_count ranges after those of the first
\* j - 1), and the iterator holds the ranges after these runs: the yielded
\* records followed by the remaining ones are the pre-scanned sequence, no
\* range given twice, dropped or reordered.  The stack map keeps the
\* sequence the pre-scan made of its bytes, so that every functions() call
\* starts from the whole sequence and groups it the same way.
C13_RecordsPartitioned ==
    /\ (fn_iter # Nil /\ fn_out.t \in {"Nil", "Some", "None"}) =>
          C13_Yielded(sm_out.item, fn_iter, fn_out,
                      sm_out.item.num_functions - fn_iter.remaining_functions)
    /\ sm_out.t = "Some" =>
          /\ functions(sm_out.item).record_slices = sm_out.item.record_slices
          /\ sm_out.item.record_slices
               = parse_stack_map(YieldedStackMapBytes(sm_out.item))
                   .val.record_slices

\* FunctionsIter::next has yielded the second function of a stack map whose
\* two functions declare one record each: it holds the second of the two
\* pre-scanned ranges, which differs from the first, and none is left.
C13_Witness ==
    /\ fn_out.t = "Some"
    /\ sm_out.item.num_functions = 2
    /\ fn_iter.remaining_functions = 0
    /\ DeclaredCount(sm_out.item.functions, 1) = 1
    /\ Len(sm_out.item.record_slices) = 2
    /\ fn_out.item.records = <<sm_out.item.record_slices[2]>>
    /\ sm_out.item.record_slices[1] # sm_out.item.record_slices[2]
    /\ fn_iter.record_slices = <<>>

=============================================================================
